---------------------------- MODULE Spec2Model ----------------------------
(***************************************************************************)
(* rat: a local scheduler of deferred shell commands.                      *)
(*                                                                         *)
(* The model holds the SQLite store (tables jobs and job_results), the     *)
(* clock, the `rat run` process (Run::run / Run::run_job), the `rat add`   *)
(* command and the `rat delete` command (two steps: get_job, then          *)
(* delete).  The commands are separate processes on the same rat.db, so    *)
(* their statements interleave with the loop's.                            *)
(*                                                                         *)
(* JobManager and the store functions are those of src/src/lib.rs; the     *)
(* job states are those of src/src/schema.rs (Queued, Done, Canceled,      *)
(* Doing; Doing is the state the specification calls Running, and no       *)
(* Dequeued state exists).  Job::mark_running and Job::save_job_result are *)
(* called by src/src/commands.rs and defined nowhere in src/: they are     *)
(* modelled from the specification's section 4.3 on top of JobManager's    *)
(* operations.                                                             *)
(*                                                                         *)
(* Time is counted in ticks, TicksPerSec ticks to the second, so that      *)
(* waits shorter than a second exist.                                      *)
(***************************************************************************)
EXTENDS Integers, Sequences, FiniteSets

VARIABLES
    jobs,      \* table jobs: rowid -> [state, run_at]
    results,   \* table job_results: rowid -> [job_id, status]
    now,       \* the clock, in ticks
    pc,        \* where the `rat run` process is
    held,      \* the job dequeue() returned to the loop, NoJob between ticks
    wakeAt,    \* the time the loop's current thread::sleep ends
    out,       \* the exit status captured from the subprocess
    del,       \* the `rat delete` process: the job get_job returned
    nadded,    \* how many jobs `rat add` has inserted so far
    store,     \* table jobs with all its columns, as JobManager's callers see it
    call       \* the last call made on JobManager and what get_job read after it

vars == <<jobs, results, now, pc, held, wakeAt, out, del, nadded, store, call>>

\* The scheduler's view (Spec) and the view of JobManager's callers (ApiSpec).
schedVars == <<jobs, results, now, pc, held, wakeAt, out, del, nadded>>

apiVars == <<store, call>>

---------------------------------------------------------------------------
(* Bounds of the model *)

MaxAdds == 2
MaxTime == 3
MaxRunAt == 3
TicksPerSec == 2

(* Program constants *)

IntervalSecs == 1

Interval == IntervalSecs * TicksPerSec

---------------------------------------------------------------------------
(* schema.rs *)

JobState == {"Queued", "Done", "Canceled", "Doing"}

\* Option<i16>: None is the empty sequence, Some(c) the sequence <<c>>.
NoStatus == <<>>

ExitStatuses == {<<0>>, <<1>>}

NoJob == [id |-> 0, run_at |-> 0]

NoSnapshot == [id |-> 0, state |-> "Queued"]

NoCall == [op |-> "none"]

---------------------------------------------------------------------------
(* The store: lib.rs *)

Max(S) == CHOOSE x \in S : \A y \in S : y <= x

Min(S) == CHOOSE x \in S : \A y \in S : x <= y

\* SQLite's rowid for an INTEGER PRIMARY KEY column without AUTOINCREMENT:
\* one more than the largest rowid in the table, 1 in an empty table.
NextRowId(rows) == IF DOMAIN rows = {} THEN 1 ELSE Max(DOMAIN rows) + 1

\* INSERT INTO jobs (...): the row carries the state the job carries.
insert_job(tbl, state, run_at) ==
    [id \in DOMAIN tbl \cup {NextRowId(tbl)} |->
        IF id \in DOMAIN tbl THEN tbl[id]
        ELSE [state |-> state, run_at |-> run_at]]

\* UPDATE jobs SET state = ?1 WHERE id = ?2: no row, no change, no error.
update_job_state(tbl, id, state) ==
    [i \in DOMAIN tbl |->
        IF i = id THEN [tbl[i] EXCEPT !.state = state] ELSE tbl[i]]

\* job_results.status is INTEGER NOT NULL: a None status fails the INSERT.
InsertResultFails(status) == status = NoStatus

\* insert_job_result binding the wrong value to the status column: every row
\* gets status 0.
insert_job_result_status_lost(res, job_id, status) ==
    [id \in DOMAIN res \cup {NextRowId(res)} |->
        IF id \in DOMAIN res THEN res[id]
        ELSE [job_id |-> job_id, status |-> <<0>>]]

\* INSERT INTO job_results (...): one statement, the jobs table untouched.
insert_job_result(res, job_id, status) ==
    [id \in DOMAIN res \cup {NextRowId(res)} |->
        IF id \in DOMAIN res THEN res[id]
        ELSE [job_id |-> job_id, status |-> status]]

\* One transaction: DELETE FROM job_results WHERE job_id; DELETE FROM jobs WHERE id.
delete_job_results(res, job_id) ==
    [id \in {r \in DOMAIN res : res[r].job_id # job_id} |-> res[id]]

delete_job_row(tbl, id) == [i \in DOMAIN tbl \ {id} |-> tbl[i]]

RECURSIVE AscSeq(_)
AscSeq(S) == IF S = {} THEN <<>> ELSE <<Min(S)>> \o AscSeq(S \ {Min(S)})

\* SELECT ... FROM jobs WHERE state = ?1: a table scan, in rowid order.
select_jobs(tbl, state) == AscSeq({id \in DOMAIN tbl : tbl[id].state = state})

select_queued_jobs(tbl) == select_jobs(tbl, "Queued")

\* One step of the stable sort under the reversed comparator: x, which came
\* after every element of the sorted prefix t, goes behind the elements whose
\* run_at is greater than or equal to its own.
InsertDesc(tbl, t, x) ==
    LET k == Cardinality({i \in 1..Len(t) : tbl[t[i]].run_at >= tbl[x].run_at})
    IN  SubSeq(t, 1, k) \o <<x>> \o SubSeq(t, k + 1, Len(t))

RECURSIVE SortByRunAtReversed(_, _)
SortByRunAtReversed(tbl, s) ==
    IF s = <<>> THEN <<>>
    ELSE InsertDesc(tbl, SortByRunAtReversed(tbl, SubSeq(s, 1, Len(s) - 1)), s[Len(s)])

\* JobManager::dequeue: sort the queued jobs by run_at, descending, and pop
\* the last one.  0 stands for None.  Nothing is written to the store.
dequeue(tbl) ==
    LET s == SortByRunAtReversed(tbl, select_queued_jobs(tbl))
    IN  IF s = <<>> THEN 0 ELSE s[Len(s)]

---------------------------------------------------------------------------
(* The state *)

PcValues ==
    {"poll", "idle_sleep", "far_sleep", "near_sleep", "ready", "running",
     "spawned", "inserted", "spawn_failed", "save_failed", "crashed"}

\* The loop holds the job returned by dequeue() from the fetch to the end of the tick.
LeasePcs == {"far_sleep", "near_sleep", "ready", "running", "spawned", "inserted"}

StoppedPcs == {"spawn_failed", "save_failed", "crashed"}

LeaseLive == pc \in LeasePcs

TypeOK ==
    /\ DOMAIN jobs \subseteq 1..MaxAdds
    /\ \A id \in DOMAIN jobs :
          jobs[id].state \in JobState /\ jobs[id].run_at \in 0..MaxRunAt
    /\ \A r \in DOMAIN results :
          results[r].job_id \in 1..MaxAdds /\ results[r].status \in ExitStatuses
    /\ now \in 0..MaxTime
    /\ pc \in PcValues
    /\ held.id \in 0..MaxAdds
    /\ out \in ExitStatuses \cup {NoStatus}
    /\ del.id \in 0..MaxAdds
    /\ nadded \in 0..MaxAdds

Init ==
    /\ jobs = <<>>
    /\ results = <<>>
    /\ now = 0
    /\ pc = "poll"
    /\ held = NoJob
    /\ wakeAt = 0
    /\ out = NoStatus
    /\ del = NoSnapshot
    /\ nadded = 0
    /\ store = <<>>
    /\ call = NoCall

---------------------------------------------------------------------------
(* The clock *)

Tick ==
    /\ now < MaxTime
    /\ now' = now + 1
    /\ UNCHANGED <<jobs, results, pc, held, wakeAt, out, del, nadded>>
    /\ UNCHANGED apiVars

---------------------------------------------------------------------------
(* rat add: Add::run, JobManager::enqueue *)

\* JobManager::enqueue: insert_job with the job as given.
enqueue(tbl, state, run_at) == insert_job(tbl, state, run_at)

\* Add::run builds the job with JobState::Queued.
Add(run_at) ==
    /\ nadded < MaxAdds
    /\ jobs' = enqueue(jobs, "Queued", run_at)
    /\ nadded' = nadded + 1
    /\ UNCHANGED <<results, now, pc, held, wakeAt, out, del>>
    /\ UNCHANGED apiVars

---------------------------------------------------------------------------
(* rat delete: Delete::run, JobManager::get_job, JobManager::delete *)

\* Delete::run, first half: get_job returns the row as it is now.
DeleteRead(id) ==
    /\ del = NoSnapshot
    /\ id \in DOMAIN jobs
    /\ del' = [id |-> id, state |-> jobs[id].state]
    /\ UNCHANGED <<jobs, results, now, pc, held, wakeAt, out, nadded>>
    /\ UNCHANGED apiVars

\* JobManager::delete: delete_job first, the test of job.state after it.
delete_jobs(tbl, job) == delete_job_row(tbl, job.id)

\* delete_results without the DELETE FROM job_results statement.
delete_results_skipped(res, job) == res

delete_results(res, job) == delete_job_results(res, job.id)

DeleteReturnsErr(job) == job.state = "Doing"

\* Delete::run, second half: delete(&job) with the job read before.
DeleteExec ==
    /\ del # NoSnapshot
    /\ jobs' = delete_jobs(jobs, del)
    /\ results' = delete_results(results, del)
    /\ del' = NoSnapshot
    /\ UNCHANGED <<now, pc, held, wakeAt, out, nadded>>
    /\ UNCHANGED apiVars

---------------------------------------------------------------------------
(* rat run: Run::run, Run::run_job *)

\* chrono's Duration::num_seconds: whole seconds, truncated toward zero.
NumSeconds(d) ==
    IF d >= 0 THEN d \div TicksPerSec ELSE -((-d) \div TicksPerSec)

\* AfterFetch without the branch for waits longer than the interval: every
\* positive wait is slept out and the job is run.
AfterFetchNoFarBranch(wait) ==
    IF NumSeconds(wait) > 0 THEN "near_sleep" ELSE "ready"

\* Where run_job goes after computing wait_time = run_at - now.
AfterFetch(wait) ==
    IF NumSeconds(wait) > 0
    THEN IF wait > Interval THEN "far_sleep" ELSE "near_sleep"
    ELSE "ready"

\* SleepFor without the cap: every positive wait is slept out in full.
SleepForWholeWait(wait) ==
    IF NumSeconds(wait) > 0 THEN wait ELSE 0

SleepFor(wait) ==
    IF NumSeconds(wait) > 0
    THEN IF wait > Interval THEN Interval ELSE wait
    ELSE 0

\* run_job up to its first sleep: dequeue, then the wait computed from now.
LoopFetch ==
    /\ pc = "poll"
    /\ LET id == dequeue(jobs) IN
         IF id = 0
         THEN /\ pc' = "idle_sleep"
              /\ wakeAt' = now + Interval
              /\ UNCHANGED held
         ELSE LET wait == jobs[id].run_at - now IN
              /\ held' = [id |-> id, run_at |-> jobs[id].run_at]
              /\ pc' = AfterFetch(wait)
              /\ wakeAt' = IF SleepFor(wait) = 0 THEN 0 ELSE now + SleepFor(wait)
    /\ UNCHANGED <<jobs, results, now, out, del, nadded>>
    /\ UNCHANGED apiVars

\* DropJob with a rollback on every release: the state is written back to Queued.
DropJobRollsBack(tbl, job) == update_job_state(tbl, job.id, "Queued")

\* Dropping the Job that dequeue returned: Job is a plain struct with no Drop
\* implementation, so the store is left as it is.
DropJob(tbl, job) == tbl

\* thread::sleep(interval) is over and run_job returns Ok: no job, or a job
\* whose wait exceeds the interval.
LoopWakeReturn ==
    /\ pc \in {"idle_sleep", "far_sleep"}
    /\ now >= wakeAt
    /\ jobs' = IF pc = "far_sleep" THEN DropJob(jobs, held) ELSE jobs
    /\ pc' = "poll"
    /\ held' = NoJob
    /\ wakeAt' = 0
    /\ UNCHANGED <<results, now, out, del, nadded>>
    /\ UNCHANGED apiVars

\* thread::sleep(wait_time) is over.
LoopWakeContinue ==
    /\ pc = "near_sleep"
    /\ now >= wakeAt
    /\ pc' = "ready"
    /\ wakeAt' = 0
    /\ UNCHANGED <<jobs, results, now, held, out, del, nadded>>
    /\ UNCHANGED apiVars

\* Job::mark_running: persists the running state through update_job_state.
mark_running(tbl, job) == update_job_state(tbl, job.id, "Doing")

LoopMarkRunning ==
    /\ pc = "ready"
    /\ jobs' = mark_running(jobs, held)
    /\ pc' = "running"
    /\ UNCHANGED <<results, now, held, wakeAt, out, del, nadded>>
    /\ UNCHANGED apiVars

\* Command::output() returns: the subprocess exited with a code, or was
\* killed by a signal (no code).
LoopSpawnExit(status) ==
    /\ pc = "running"
    /\ out' = status
    /\ pc' = "spawned"
    /\ UNCHANGED <<jobs, results, now, held, wakeAt, del, nadded>>
    /\ UNCHANGED apiVars

\* Command::output() fails: `?` returns the error from run_job, the job is
\* dropped, and `?` in Run::run ends the loop and the process.
LoopSpawnFail ==
    /\ pc = "running"
    /\ jobs' = DropJob(jobs, held)
    /\ pc' = "spawn_failed"
    /\ UNCHANGED <<results, now, held, wakeAt, out, del, nadded>>
    /\ UNCHANGED apiVars

\* Job::save_job_result, first statement: JobManager::save_job_result.
\* A failed INSERT returns the error from run_job and ends the loop.
LoopSaveResult ==
    /\ pc = "spawned"
    /\ IF InsertResultFails(out)
       THEN /\ pc' = "save_failed"
            /\ jobs' = DropJob(jobs, held)
            /\ UNCHANGED results
       ELSE /\ pc' = "inserted"
            /\ results' = insert_job_result(results, held.id, out)
            /\ UNCHANGED jobs
    /\ out' = NoStatus
    /\ UNCHANGED <<now, held, wakeAt, del, nadded>>
    /\ UNCHANGED apiVars

\* Job::save_job_result, second statement: the job becomes Done; run_job
\* returns Ok and the next tick begins.
mark_done(tbl, job) == update_job_state(tbl, job.id, "Done")

LoopMarkDone ==
    /\ pc = "inserted"
    /\ jobs' = mark_done(jobs, held)
    /\ pc' = "poll"
    /\ held' = NoJob
    /\ UNCHANGED <<results, now, wakeAt, out, del, nadded>>
    /\ UNCHANGED apiVars

\* The process dies (killed, power loss): no destructor runs.  held keeps
\* the job the dead process was holding, until the restart.
Crash ==
    /\ pc \notin StoppedPcs
    /\ pc' = "crashed"
    /\ wakeAt' = 0
    /\ out' = NoStatus
    /\ UNCHANGED <<jobs, results, now, held, del, nadded>>
    /\ UNCHANGED apiVars

\* `rat run` is started again.
Restart ==
    /\ pc \in StoppedPcs
    /\ pc' = "poll"
    /\ held' = NoJob
    /\ UNCHANGED <<jobs, results, now, wakeAt, out, del, nadded>>
    /\ UNCHANGED apiVars

---------------------------------------------------------------------------

Next ==
    \/ Tick
    \/ \E r \in 0..MaxRunAt : Add(r)
    \/ \E id \in 1..MaxAdds : DeleteRead(id)
    \/ DeleteExec
    \/ LoopFetch
    \/ LoopWakeReturn
    \/ LoopWakeContinue
    \/ LoopMarkRunning
    \/ \E s \in ExitStatuses \cup {NoStatus} : LoopSpawnExit(s)
    \/ LoopSpawnFail
    \/ LoopSaveResult
    \/ LoopMarkDone
    \/ Crash
    \/ Restart

Spec == Init /\ [][Next]_vars

---------------------------------------------------------------------------
(* JobManager as its callers see it: every column of a job, written by      *)
(* enqueue and read back by get_job.                                        *)

MaxRows == 2

\* Option<String>: None is the empty sequence, Some(s) the sequence <<s>>.
Names == {<<>>, <<"nightly">>}

Scripts == {"echo hi"}

Dirs == {"/srv", "/tmp"}

\* DateTime<Local> given on the command line: an instant and the local offset.
LocalTimes == {[secs |-> 60, offset |-> 0], [secs |-> 60, offset |-> 9]}

\* DateTime::to_utc: the same instant at offset 0.
to_utc(t) == [secs |-> t.secs, offset |-> 0]

\* PathBuf wraps the OS string; path_to_bytes takes its bytes out and
\* bytes_to_path wraps them again.
PathBuf(os) == [os |-> os]

path_to_bytes(path) == path.os

bytes_to_path(buf) == [os |-> buf]

\* impl ToSql / FromSql for JobState: the INTEGER stored in jobs.state.
JobStateToSql(state) ==
    CASE state = "Queued" -> 0
      [] state = "Done" -> 1
      [] state = "Canceled" -> 2
      [] state = "Doing" -> 3

JobStateFromSql(n) ==
    CASE n = 0 -> "Queued"
      [] n = 1 -> "Done"
      [] n = 2 -> "Canceled"
      [] n = 3 -> "Doing"

\* DateTime<Utc> in a TEXT column: the instant written with its offset, and
\* parsed back into a DateTime<Utc>.
DateTimeToSql(t) == <<t.secs, t.offset>>

DateTimeFromSql(txt) == [secs |-> txt[1], offset |-> 0]

\* JobBuilder: the typestate builder; b is the record of its Option fields.
JobBuilder_new ==
    [name |-> <<>>, state |-> <<>>, script |-> <<>>, run_at |-> <<>>, cwd |-> <<>>]

\* JobBuilder::build: the job's cwd is env::current_dir() of the process,
\* the builder's own cwd field is not read.
build(b, current_dir) ==
    [name |-> b.name, state |-> b.state[1], script |-> b.script[1],
     run_at |-> b.run_at[1], cwd |-> current_dir]

\* Add::run up to build(): args are the command-line arguments.
AddBuildsJob(args, current_dir) ==
    LET cwd == IF args.cwd = <<>> THEN current_dir ELSE args.cwd[1]
        b == [JobBuilder_new EXCEPT !.state = <<"Queued">>,
                                    !.script = <<args.script>>,
                                    !.run_at = <<to_utc(args.run_at)>>,
                                    !.cwd = <<cwd>>,
                                    !.name = args.name]
    IN  build(b, current_dir)

\* insert_job with all five columns bound as params![] binds them.
insert_job_columns(tbl, job) ==
    [id \in DOMAIN tbl \cup {NextRowId(tbl)} |->
        IF id \in DOMAIN tbl THEN tbl[id]
        ELSE [name |-> job.name,
              state |-> JobStateToSql(job.state),
              script |-> job.script,
              run_at |-> DateTimeToSql(job.run_at),
              cwd |-> path_to_bytes(job.cwd)]]

\* JobManager::enqueue on the full table: the job as given is inserted.
enqueue_job(tbl, job) == insert_job_columns(tbl, job)

NoRow == [id |-> 0]

\* get_job: SELECT id,name,state,script,run_at,cwd FROM jobs WHERE id = ?1.
get_job(tbl, id) ==
    IF id \in DOMAIN tbl
    THEN [id |-> id,
          name |-> tbl[id].name,
          state |-> JobStateFromSql(tbl[id].state),
          script |-> tbl[id].script,
          run_at |-> DateTimeFromSql(tbl[id].run_at),
          cwd |-> bytes_to_path(tbl[id].cwd)]
    ELSE NoRow

\* update_job_state on the full table: UPDATE jobs SET state = ?1 WHERE id = ?2.
update_job_state_columns(tbl, id, state) ==
    [i \in DOMAIN tbl |->
        IF i = id THEN [tbl[i] EXCEPT !.state = JobStateToSql(state)] ELSE tbl[i]]

\* The jobs a caller of the library can hand to enqueue: Job's fields are
\* public and JobBuilder::state takes any JobState.
SuppliedJobs ==
    [name : Names, state : JobState, script : Scripts,
     run_at : {to_utc(t) : t \in LocalTimes}, cwd : {PathBuf(d) : d \in Dirs}]

\* The arguments of `rat add`: --cwd is optional.
AddArgs ==
    [name : Names, script : Scripts, run_at : LocalTimes,
     cwd : {<<>>} \cup {<<PathBuf(d)>> : d \in Dirs}]

ApiInit == Init

\* A caller enqueues a job and reads it back with get_job.
ApiEnqueue(job) ==
    /\ Cardinality(DOMAIN store) < MaxRows
    /\ store' = enqueue_job(store, job)
    /\ call' = [op |-> "enqueue", job |-> job,
                got |-> get_job(store', NextRowId(store))]
    /\ UNCHANGED schedVars

\* `rat add` run in the directory current_dir, then get_job of the new id.
ApiAdd(args, current_dir) ==
    /\ Cardinality(DOMAIN store) < MaxRows
    /\ store' = enqueue_job(store, AddBuildsJob(args, current_dir))
    /\ call' = [op |-> "add", args |-> args,
                got |-> get_job(store', NextRowId(store))]
    /\ UNCHANGED schedVars

\* JobManager::update_job_state(&job, state) for a job read earlier: the
\* caller's copy may be stale, only its id is used.
ApiUpdateState(id, state) ==
    /\ id \in DOMAIN store
    /\ store' = update_job_state_columns(store, id, state)
    /\ call' = [op |-> "update", id |-> id, state |-> state,
                before |-> get_job(store, id), got |-> get_job(store', id)]
    /\ UNCHANGED schedVars

ApiNext ==
    \/ \E job \in SuppliedJobs : ApiEnqueue(job)
    \/ \E args \in AddArgs, d \in Dirs : ApiAdd(args, PathBuf(d))
    \/ \E id \in 1..MaxRows, state \in JobState : ApiUpdateState(id, state)

ApiSpec == ApiInit /\ [][ApiNext]_vars

---------------------------------------------------------------------------
(* The scheduler left to run: no `rat delete`, no failing spawn, no crash.  *)
(* The clock and every step of `rat run` are taken when they stay enabled;  *)
(* a `rat run` that ended with an error is started again.                   *)

\* Time passing beyond MaxTime: every run_at is at most MaxTime, so only the
\* distance to the end of the current sleep still matters, and it shrinks.
TickBeyond ==
    /\ now = MaxTime
    /\ wakeAt > now
    /\ wakeAt' = wakeAt - 1
    /\ UNCHANGED <<jobs, results, now, pc, held, out, del, nadded>>
    /\ UNCHANGED apiVars

LoopStep ==
    \/ LoopFetch
    \/ LoopWakeReturn
    \/ LoopWakeContinue
    \/ LoopMarkRunning
    \/ \E s \in ExitStatuses \cup {NoStatus} : LoopSpawnExit(s)
    \/ LoopSaveResult
    \/ LoopMarkDone

LiveNext ==
    \/ Tick
    \/ TickBeyond
    \/ \E r \in 0..MaxRunAt : Add(r)
    \/ LoopFetch
    \/ LoopWakeReturn
    \/ LoopWakeContinue
    \/ LoopMarkRunning
    \/ \E s \in ExitStatuses \cup {NoStatus} : LoopSpawnExit(s)
    \/ LoopSaveResult
    \/ LoopMarkDone
    \/ Restart

LiveSpec ==
    /\ Init
    /\ [][LiveNext]_vars
    /\ WF_vars(Tick)
    /\ WF_vars(TickBeyond)
    /\ WF_vars(LoopStep)
    /\ WF_vars(Restart)

---------------------------------------------------------------------------
(* Claims *)

HasResult(id) == \E r \in DOMAIN results : results[r].job_id = id

\* C1: a job that dequeue() returned and whose lease is still live (neither
\* resolved nor released) is not returned by a later dequeue(): a dequeue()
\* made while the lease is live returns another job or none.
C1_LeasedJobNotDequeuedAgain == LeaseLive => dequeue(jobs) # held.id

\* The queued job with the earliest run_at, the lowest id among equals.
EarliestLowestId(tbl) ==
    CHOOSE id \in DOMAIN tbl :
        /\ tbl[id].state = "Queued"
        /\ \A o \in DOMAIN tbl :
               tbl[o].state = "Queued" =>
                   \/ tbl[id].run_at < tbl[o].run_at
                   \/ tbl[id].run_at = tbl[o].run_at /\ id <= o

\* C2: the job a dequeue() returns is, among the jobs Queued at the call, the
\* one with the earliest run_at, and the lowest id among those sharing it.
C2_DequeueEarliestLowestId ==
    [][(pc = "poll" /\ pc' \in LeasePcs) => held'.id = EarliestLowestId(jobs)]_vars

\* C3: delete(job) on a job whose state is Running (Doing) changes neither
\* the jobs table nor the job_results table.
C3_DeleteRunningHasNoEffect ==
    [][(del # NoSnapshot /\ del' = NoSnapshot /\ del.state = "Doing"
            /\ del.id \in DOMAIN jobs /\ jobs[del.id].state = "Doing")
        => (jobs' = jobs /\ results' = results)]_vars

\* C4: in every state a reader can observe, a job has a result row if and
\* only if its persisted state is Done.
C4_ResultIffDone ==
    \A id \in DOMAIN jobs : HasResult(id) <=> jobs[id].state = "Done"

\* C5: the store holds at most one job_results row per job id.
C5_AtMostOneResultPerJob ==
    \A r1, r2 \in DOMAIN results :
        results[r1].job_id = results[r2].job_id => r1 = r2

\* The edges of the specification's state machine, Running being Doing.
SpecEdges ==
    {<<"Queued", "Dequeued">>, <<"Dequeued", "Doing">>, <<"Doing", "Done">>,
     <<"Dequeued", "Canceled">>, <<"Dequeued", "Queued">>}

\* C6: every change of a job's persisted state follows an edge of the
\* specification's state machine.
C6_StateChangesFollowEdges ==
    [][\A id \in DOMAIN jobs \cap DOMAIN jobs' :
          jobs[id].state # jobs'[id].state
              => <<jobs[id].state, jobs'[id].state>> \in SpecEdges]_vars

\* C7: when the process died holding a job whose result was not yet saved,
\* the job's persisted state is Queued at the first poll after the restart.
C7_QueuedAfterCrash ==
    [][(pc = "crashed" /\ pc' = "poll" /\ held.id \in DOMAIN jobs
            /\ ~HasResult(held.id))
        => jobs'[held.id].state = "Queued"]_vars

\* C8: when spawning the subprocess fails, the job's persisted state is
\* Queued again once the tick has returned its error.
C8_SpawnFailureRequeues ==
    [][(pc = "running" /\ pc' = "spawn_failed" /\ held.id \in DOMAIN jobs)
        => jobs'[held.id].state = "Queued"]_vars

\* A tick ends, or the process stops, with the lease unresolved.
ReleaseStep ==
    /\ pc \in LeasePcs
    /\ pc' \notin LeasePcs
    /\ ~(pc = "inserted" /\ pc' = "poll")

\* C9: releasing an unresolved lease leaves a Running (Doing) job Running,
\* and it moves a job to Queued only from Dequeued: with no Dequeued state
\* persisted, no job becomes Queued by a release.
C9_ReleaseKeepsRunning ==
    [][ReleaseStep =>
          \A id \in DOMAIN jobs :
              /\ id \in DOMAIN jobs'
              /\ jobs[id].state = "Doing" => jobs'[id].state = "Doing"
              /\ jobs'[id].state = "Queued" => jobs[id].state \in {"Queued", "Dequeued"}]_vars

\* C9's case: the spawn failed after mark_running, the job was released and
\* its row still reads Doing.
C9_Witness ==
    /\ pc = "spawn_failed"
    /\ held.id \in DOMAIN jobs
    /\ jobs[held.id].state = "Doing"

\* C10: mark_running, and the spawn after it, happen only at a time
\* now >= run_at of the dequeued job.
C10_NoStartBeforeRunAt ==
    [][(pc = "ready" /\ pc' = "running") => now >= held.run_at]_vars

\* C11: a tick that dequeues a job whose remaining wait exceeds the poll
\* interval goes to sleep for one interval writing nothing, and when the
\* sleep is over it ends writing nothing: the job's row reads Queued after
\* the tick and the tick has created no job_results row.
C11_FarFutureTickLeavesQueued ==
    [][/\ (pc = "poll" /\ pc' \in LeasePcs /\ held'.run_at - now > Interval)
            => /\ pc' = "far_sleep"
               /\ wakeAt' = now + Interval
               /\ jobs' = jobs /\ results' = results
       /\ (pc = "far_sleep" /\ pc' # "far_sleep")
            => /\ pc' \in {"poll", "crashed"}
               /\ pc' = "poll" => now >= wakeAt
               /\ jobs' = jobs /\ results' = results
               /\ held.id \in DOMAIN jobs' => jobs'[held.id].state = "Queued"]_vars

\* C11's case: the tick holds a job more than one interval away and its
\* sleep of one interval is over; the job reads Queued and has no result.
C11_Witness ==
    /\ pc = "far_sleep"
    /\ held.run_at - (wakeAt - Interval) > Interval
    /\ now >= wakeAt
    /\ held.id \in DOMAIN jobs
    /\ jobs[held.id].state = "Queued"
    /\ ~HasResult(held.id)

\* The job_results rows of a job.
ResultsOf(res, id) == {r \in DOMAIN res : res[r].job_id = id}

C13_EnqueuePersistsQueued ==
    call.op = "enqueue" => call.got.state = "Queued"

\* C14: after `rat add` with a name, a script, a run_at and a cwd, get_job of
\* the new id returns exactly that name, script, run_at (the same instant)
\* and cwd.
C14_AddRoundTrip ==
    (call.op = "add" /\ call.args.name # <<>> /\ call.args.cwd # <<>>)
        => /\ call.got # NoRow
           /\ call.got.name = call.args.name
           /\ call.got.script = call.args.script
           /\ call.got.run_at.secs = call.args.run_at.secs
           /\ call.got.cwd = call.args.cwd[1]

\* C17: a write of Queued (the rollback of a lease) leaves a row that is
\* Doing, Done or Canceled as it is.
C17_RollbackIsCompareAndSwap ==
    (call.op = "update" /\ call.state = "Queued"
        /\ call.before.state \in {"Doing", "Done", "Canceled"})
        => call.got.state = call.before.state

\* C15: delete(job) with a job that is not running removes the job's row and
\* its job_results rows in one step: after it get_job and get_result find
\* nothing for the id, and no step of the system removes the job row and
\* leaves a result row of its id, or removes a result row and leaves the job
\* row of its id.
C15_DeleteRemovesJobAndResultTogether ==
    [][\A id \in 1..MaxAdds :
          /\ (del.id = id /\ del' = NoSnapshot /\ ~DeleteReturnsErr(del))
                => /\ id \notin DOMAIN jobs'
                   /\ ResultsOf(results', id) = {}
          /\ (id \in DOMAIN jobs /\ id \notin DOMAIN jobs')
                => ResultsOf(results', id) = {}
          /\ (\E r \in ResultsOf(results, id) : r \notin DOMAIN results')
                => id \notin DOMAIN jobs']_vars

\* C15's case: `rat delete` has read a Done job that has a result row and is
\* about to delete it.
C15_Witness ==
    /\ del # NoSnapshot
    /\ del.state = "Done"
    /\ del.id \in DOMAIN jobs
    /\ jobs[del.id].state = "Done"
    /\ HasResult(del.id)

\* C16: when the subprocess ended without an exit code, saving the result
\* succeeds: a job_results row for the job with an absent status is stored,
\* and the tick then ends with the job's row Done.
C16_SignalKilledResultIsSaved ==
    [][/\ (pc = "spawned" /\ out = NoStatus /\ pc' \notin {"spawned", "crashed"})
            => /\ pc' = "inserted"
               /\ \E r \in ResultsOf(results', held.id) :
                     r \notin DOMAIN results /\ results'[r].status = NoStatus
       /\ (pc = "save_failed")
            => (held.id \in DOMAIN jobs => jobs[held.id].state # "Doing")]_vars

C19_NoOrphanResult ==
    \A r \in DOMAIN results : results[r].job_id \in DOMAIN jobs

\* C20: in every reachable state, after a failed spawn, an error return or a
\* crash and restart included, at most one job's row is in the running state.
C20_AtMostOneRunning ==
    Cardinality({id \in DOMAIN jobs : jobs[id].state = "Doing"}) <= 1

\* C21: with no delete, every spawn succeeding and every script terminating,
\* a job whose row is Queued is eventually Done, far-future jobs in the
\* queue or not.
C21_QueuedJobEventuallyDone ==
    \A id \in 1..MaxAdds :
        [](id \in DOMAIN jobs /\ jobs[id].state = "Queued"
              => <>(id \in DOMAIN jobs /\ jobs[id].state = "Done"))

\* C22: from the dequeue of a job to mark_running or to the end of the tick
\* the loop sleeps once at most, and for no longer than one poll interval,
\* whatever run_at - now is: the sleep is set when the job is fetched, it is
\* not extended, and no other sleep follows it before mark_running.
C22_LeaseSleepsAtMostOneInterval ==
    [][/\ (pc = "poll" /\ pc' \in {"far_sleep", "near_sleep"})
            => (wakeAt' > now /\ wakeAt' - now <= Interval)
       /\ (pc = "poll" /\ pc' = "ready") => wakeAt' = 0
       /\ (pc \in {"far_sleep", "near_sleep"} /\ pc' = pc) => wakeAt' = wakeAt
       /\ (pc = "far_sleep" /\ pc' # pc) => (pc' \in {"poll", "crashed"} /\ wakeAt' = 0)
       /\ (pc = "near_sleep" /\ pc' # pc) => (pc' \in {"ready", "crashed"} /\ wakeAt' = 0)
       /\ (pc = "ready" /\ pc' # pc) => (pc' \in {"running", "crashed"} /\ wakeAt' = 0)]_vars

\* C22's case: the loop holds a job it fetched one interval before run_at and
\* the sleep of one interval is over.
C22_Witness ==
    /\ pc = "near_sleep"
    /\ held.id \in DOMAIN jobs
    /\ wakeAt = held.run_at
    /\ now >= wakeAt

\* C23: the id an enqueue returns was returned by no earlier enqueue, deleted
\* jobs included.  The k earlier enqueues returned ids within 1..k (all of
\* 1..k when they were distinct), so the new id has to lie above k.
C23_IdNeverReused ==
    [][nadded' = nadded + 1
          => \E id \in DOMAIN jobs' \ DOMAIN jobs : id > nadded]_vars

NoResult == [job_id |-> 0, status |-> NoStatus]

\* get_job_result: SELECT ... FROM job_results WHERE job_id = ?1, first row.
get_job_result(res, job_id) ==
    IF ResultsOf(res, job_id) = {} THEN NoResult
    ELSE res[Min(ResultsOf(res, job_id))]

===========================================================================
